---- MODULE Spec2Model ----
(***************************************************************************)
(* Forage Kitchen reporting scripts: the 4-4-5 fiscal calendar and the     *)
(* weekly COGS dashboard builder (cogs_dashboard.py), with the period      *)
(* lookups of daily_dashboard.py and r365_build_pl.py.                     *)
(*                                                                         *)
(* Time.  A datetime is an integer number of ticks; a day has TicksPerDay  *)
(* ticks and a date-only datetime (midnight) is a multiple of TicksPerDay. *)
(* Day 0 is Monday 2024-01-01, so that weekday() of day d is d % 7.        *)
(* Money is an integer number of cents, so that round(x, 2) is the         *)
(* identity.                                                               *)
(***************************************************************************)
EXTENDS Integers, Sequences, FiniteSets, TLC

\* ------------------------------------------------------------------ bounds
TicksPerDay == 2
FirstConfigDay == 364
NumConfigStarts == 7
NumFiscalYears == 2
ClockMargin == 2
MaxLines == 2
MaxSpanDays == 70
PageRows == 2
MaxRuns == 2
OrdersPageRows == 2
MaxOrders == 7
MaxNameLen == 5

\* ------------------------------------------------------------------ time
Days(n) == n * TicksPerDay
Weeks(n) == Days(7 * n)
DateOf(dt) == dt \div TicksPerDay
Midnight(dt) == DateOf(dt) * TicksPerDay
EndOfDay(dt) == Midnight(dt) + (TicksPerDay - 1)

Min(S) == CHOOSE x \in S : \A y \in S : x <= y
Max(S) == CHOOSE x \in S : \A y \in S : x >= y

\* ------------------------------------------------------------------ 4-4-5 fiscal calendar
pattern == <<4, 4, 5, 4, 4, 5, 4, 4, 5, 4, 4, 5>>

PeriodEndOffByOne(current, weeks) == current + Weeks(weeks)

PeriodEnd(current, weeks) == current + Weeks(weeks) - Days(1)

RECURSIVE PeriodsFrom(_, _)
PeriodsFrom(current, i) ==
    IF i > Len(pattern) THEN <<>>
    ELSE LET pstart == current
             pend == PeriodEnd(current, pattern[i])
         IN  <<[period |-> i, start |-> pstart, end |-> pend, weeks |-> pattern[i]]>>
             \o PeriodsFrom(pend + Days(1), i + 1)

get_445_periods(fy_start) == PeriodsFrom(fy_start, 1)

\* r365_build_pl.py: the fiscal-year starts written in the script
FY_STARTS == (2024 :> Days(0)) @@ (2025 :> Days(364)) @@ (2026 :> Days(728))

ALL_PERIODS == [fy \in DOMAIN FY_STARTS |-> get_445_periods(FY_STARTS[fy])]

NotFound == [found |-> FALSE]

\* the first period of the list, in list order, with start <= dt <= end
Matching(periods, dt) ==
    {i \in 1..Len(periods) : periods[i].start <= dt /\ dt <= periods[i].end}

Hit(fy, p) == [found |-> TRUE, fy |-> fy, period |-> p.period,
               start |-> p.start, end |-> p.end]

\* for fy in <order>: for p in periods: if p.start <= dt <= p.end: return
ScanYears(starts, dt, newestFirst) ==
    LET hits == {fy \in DOMAIN starts : Matching(get_445_periods(starts[fy]), dt) # {}}
    IN  IF hits = {} THEN NotFound
        ELSE LET fy == IF newestFirst THEN Max(hits) ELSE Min(hits)
                 ps == get_445_periods(starts[fy])
             IN  Hit(fy, ps[Min(Matching(ps, dt))])

\* cogs_dashboard.py: today = datetime.now(), the time of day kept
get_current_period(config, now) == ScanYears(config, now, TRUE)

\* daily_dashboard.py: today = datetime.now().replace(hour=0, ...)
daily_get_current_period(config, now) == ScanYears(config, Midnight(now), TRUE)

\* a Python list index: a negative index counts from the end of the list
PyIndex(i, n) == IF i < 0 THEN n + i + 1 ELSE i + 1

\* daily_dashboard.main: the period displayed by default; on the first day
\* of a period, all_periods[period - 2] of the same fiscal year
daily_display_period(config, now) ==
    LET cur == daily_get_current_period(config, now)
        today == Midnight(now)
    IN  IF ~cur.found THEN NotFound
        ELSE IF today = cur.start
        THEN LET all_periods == get_445_periods(config[cur.fy])
             IN  Hit(cur.fy, all_periods[PyIndex(cur.period - 2, Len(all_periods))])
        ELSE cur

\* r365_build_pl.py: dt as parsed from the ISO string, oldest year first
date_to_fy_period(dt) == ScanYears(FY_STARTS, dt, FALSE)

\* ------------------------------------------------------------------ state
VARIABLES
    fy_start,     \* r365_config: the first configured fiscal-year start
    clock,        \* datetime.now() / the datetime handed to a lookup
    cal_op,       \* the calendar function that ran ("" before any)
    cal_periods,  \* what get_445_periods returned
    cal_found,    \* what the period lookup returned
    cal_span,     \* the <<period_start, period_end>> handed to a function
    cal_weeks,    \* what get_period_weeks returned
    cal_requests  \* the Transaction requests pull_transactions_for_period made

spanVars == <<cal_span, cal_weeks, cal_requests>>
calVars == <<fy_start, clock, cal_op, cal_periods, cal_found, spanVars>>

VARIABLES
    pc,                 \* position of cogs_dashboard.main ("off" when it does not run)
    target_period,      \* sys.argv[1]: the period the run was asked for
    period_start,       \* main: first day of the period
    period_end,         \* main: last day of the period
    period_weeks,       \* main: get_period_weeks(period_start, period_end)
    upTxns,             \* R365 Transaction view: transactionId -> header
    upDetails,          \* R365 TransactionDetail view: the list of all detail rows
    transactions,       \* main: the pulled headers
    begin_inv_txn_ids,  \* main: ids of the prior-period-end Stock Counts
    details,            \* main: the detail rows of the pulled transactions
    idx,                \* position of the running pass in details
    begin_inventory,    \* main: store -> beginning inventory
    week_data,          \* main: week -> store -> aggregate
    period_data,        \* main: store -> aggregate
    week_sales,         \* main: week -> store -> net sales
    period_sales,       \* main: store -> net sales
    dashboard_data,     \* main: the output object
    printed,            \* main: what the second pass has printed
    outage              \* the upstream requests that fail on every attempt

VARIABLES
    table_rows,        \* R365: number of rows of the view that is read
    fa_pc,             \* position of r365_fetch_all / r365_fetch
    skip,              \* r365_fetch_all: $skip of the page asked for
    all_records,       \* r365_fetch_all: the rows received so far
    attempt,           \* r365_fetch: the loop variable
    fetch_log,         \* r365_fetch: the requests and sleeps of the running call
    fetch_returned     \* r365_fetch: what the last finished call returned

fetchVars == <<table_rows, fa_pc, skip, all_records, attempt, fetch_log, fetch_returned>>

VARIABLES
    store_cache,       \* the cache files: store -> date -> net sales
    store_sales,       \* what the last pull_period_sales returned
    sales_today,       \* datetime.now() of the last pull_period_sales
    sales_failed,      \* the (store, date) pulls that failed in the last run
    sales_runs,        \* number of runs so far
    sales_fn,          \* the function that ran last
    sales_processed,   \* the (store, date) pairs the last run went through, in order
    sales_fetched,     \* the (store, date) pulls the last run asked Toast for, in order
    daily_cache,       \* daily_dashboard's cache files: store -> date -> day totals
    daily_returned     \* what the last pull_sales_cached returned, per store

salesVars == <<store_cache, store_sales, sales_today, sales_failed, sales_runs,
               sales_fn, sales_processed, sales_fetched, daily_cache, daily_returned>>

mainVars == <<outage, pc, target_period, period_start, period_end, period_weeks, upTxns, upDetails, transactions, begin_inv_txn_ids,
              details, idx, begin_inventory, week_data, period_data, week_sales,
              period_sales, dashboard_data, printed>>
VARIABLES
    orders_count,      \* Toast: number of orders of the business date
    toast_pc,          \* position of pull_toast_sales_day / toast_get
    page,              \* pull_toast_sales_day: the page asked for
    net_sales,         \* pull_toast_sales_day: the running sum
    toast_attempt,     \* toast_get: the loop variable
    toast_log,         \* toast_get: the requests and sleeps of the running call
    toast_error        \* toast_get: the error of the last failed attempt

toastVars == <<orders_count, toast_pc, page, net_sales, toast_attempt, toast_log,
               toast_error>>

VARIABLES
    txn_name,          \* extract_vendor_name: the argument
    vendor             \* extract_vendor_name: the value returned

pureVars == <<txn_name, vendor>>

auxVars == <<toastVars, pureVars>>

vars == <<calVars, mainVars, fetchVars, salesVars, auxVars>>

\* r365_config.FISCAL_YEAR_STARTS: consecutive fiscal years, 364 days apart
FISCAL_YEAR_STARTS ==
    [fy \in 1..NumFiscalYears |-> fy_start + Days(364 * (fy - 1))]

FyStartDays == FirstConfigDay..(FirstConfigDay + NumConfigStarts - 1)
ClockDays == (FirstConfigDay - ClockMargin)
                 ..(FirstConfigDay + NumConfigStarts + 364 * NumFiscalYears + ClockMargin)
ClockTicks == {Days(d) + t : d \in ClockDays, t \in 0..(TicksPerDay - 1)}

\* cogs_dashboard.main does not run
MainOff ==
    /\ pc = "off"
    /\ target_period = 1
    /\ period_start = 0
    /\ period_end = 0
    /\ period_weeks = <<>>
    /\ upTxns = <<>>
    /\ upDetails = <<>>
    /\ transactions = <<>>
    /\ begin_inv_txn_ids = {}
    /\ details = <<>>
    /\ idx = 1
    /\ begin_inventory = <<>>
    /\ week_data = <<>>
    /\ period_data = <<>>
    /\ week_sales = <<>>
    /\ period_sales = <<>>
    /\ dashboard_data = <<>>
    /\ printed = <<>>
    /\ outage = {}

\* no r365_fetch_all call is running
FetchOff ==
    /\ table_rows = 0
    /\ fa_pc = "off"
    /\ skip = 0
    /\ all_records = <<>>
    /\ attempt = 0
    /\ fetch_log = <<>>
    /\ fetch_returned = [has |-> FALSE, value |-> <<>>]

\* no pull_period_sales has run
SalesOff ==
    /\ store_cache = <<>>
    /\ store_sales = <<>>
    /\ sales_today = 0
    /\ sales_failed = {}
    /\ sales_runs = 0
    /\ sales_fn = ""
    /\ sales_processed = <<>>
    /\ sales_fetched = <<>>
    /\ daily_cache = <<>>
    /\ daily_returned = <<>>

\* no pull_toast_sales_day call is running
ToastOff ==
    /\ orders_count = 0
    /\ toast_pc = "off"
    /\ page = 1
    /\ net_sales = 0
    /\ toast_attempt = 0
    /\ toast_log = <<>>
    /\ toast_error = ""

PureOff ==
    /\ txn_name = <<>>
    /\ vendor = [has |-> FALSE, value |-> <<>>]

AuxOff == ToastOff /\ PureOff

SpanOff ==
    /\ cal_span = <<0, 0>>
    /\ cal_weeks = <<>>
    /\ cal_requests = <<>>

CalInit ==
    /\ fy_start \in {Days(d) : d \in FyStartDays}
    /\ clock \in ClockTicks
    /\ cal_op = ""
    /\ cal_periods = <<>>
    /\ cal_found = NotFound
    /\ SpanOff
    /\ MainOff
    /\ FetchOff
    /\ SalesOff
    /\ AuxOff

CallGet445Periods ==
    /\ cal_op = ""
    /\ cal_op' = "get_445_periods"
    /\ cal_periods' = get_445_periods(fy_start)
    /\ UNCHANGED <<fy_start, clock, cal_found, spanVars, mainVars, fetchVars, salesVars, auxVars>>

CallGetCurrentPeriod ==
    /\ cal_op = ""
    /\ cal_op' = "cogs.get_current_period"
    /\ cal_found' = get_current_period(FISCAL_YEAR_STARTS, clock)
    /\ UNCHANGED <<fy_start, clock, cal_periods, spanVars, mainVars, fetchVars, salesVars, auxVars>>

CallDailyGetCurrentPeriod ==
    /\ cal_op = ""
    /\ cal_op' = "daily.get_current_period"
    /\ cal_found' = daily_get_current_period(FISCAL_YEAR_STARTS, clock)
    /\ UNCHANGED <<fy_start, clock, cal_periods, spanVars, mainVars, fetchVars, salesVars, auxVars>>

CallDailyDisplayPeriod ==
    /\ cal_op = ""
    /\ cal_op' = "daily.main.display_period"
    /\ cal_found' = daily_display_period(FISCAL_YEAR_STARTS, clock)
    /\ UNCHANGED <<fy_start, clock, cal_periods, spanVars, mainVars, fetchVars, salesVars, auxVars>>

CallDateToFyPeriod ==
    /\ cal_op = ""
    /\ cal_op' = "date_to_fy_period"
    /\ cal_found' = date_to_fy_period(clock)
    /\ UNCHANGED <<fy_start, clock, cal_periods, spanVars, mainVars, fetchVars, salesVars, auxVars>>

CalNext ==
    \/ CallGet445Periods
    \/ CallGetCurrentPeriod
    \/ CallDailyGetCurrentPeriod
    \/ CallDailyDisplayPeriod
    \/ CallDateToFyPeriod

SpecCal == CalInit /\ [][CalNext]_vars

\* ------------------------------------------------------------------ configuration and reference data
\* r365_config.SSS_CONFIG: the known store registry (store numbers)
STORE_NAMES == {"8001", "8002"}

\* R365 Location view: locationId -> locationNumber.  L9 is a location of
\* the accounting system that is no store of the registry; LX is an id the
\* Location view does not list.
loc_id_to_num == ("L1" :> "8001") @@ ("L2" :> "8002") @@ ("L9" :> "9000")

\* R365 GlAccount view: glAccountId -> glAccountNumber, as digits
gl_map ==
    ("G5110" :> <<5, 1, 1, 0>>) @@ ("G5210" :> <<5, 2, 1, 0>>)
        @@ ("G5310" :> <<5, 3, 1, 0>>) @@ ("G5999" :> <<5, 9, 9, 9>>)
        @@ ("G6100" :> <<6, 1, 0, 0>>)

COGS_GL_ACCOUNTS ==
    (<<5, 1, 1, 0>> :> "Food") @@ (<<5, 2, 1, 0>> :> "Packaging")
        @@ (<<5, 3, 1, 0>> :> "Beverage")

\* 4.39, in hundredths
COGS_COVERAGE_FACTOR == 439

COGS_TXN_TYPES ==
    <<"AP Invoice", "AP Credit Memo", "Stock Count", "Waste Log", "Item Transfer">>

\* gl_map.get(gl_id, {}).get("number", "")
GlNumber(gl_id) == IF gl_id \in DOMAIN gl_map THEN gl_map[gl_id] ELSE <<>>

\* gl_num.startswith("5")
StartsWith5(gl_num) == Len(gl_num) > 0 /\ gl_num[1] = 5

\* gl_to_cogs_cat.get(gl_id, None)
CogsCat(gl_id) ==
    IF GlNumber(gl_id) \in DOMAIN COGS_GL_ACCOUNTS
    THEN COGS_GL_ACCOUNTS[GlNumber(gl_id)] ELSE "None"

\* ------------------------------------------------------------------ business weeks
WeekEndUntruncated(current, pend) == current + Days(6)

\* week_end = current + 6 days, cut at the period end
WeekEnd(current, pend) ==
    IF current + Days(6) > pend THEN pend ELSE current + Days(6)

RECURSIVE WeeksFrom(_, _)
WeeksFrom(current, pend) ==
    IF current > pend THEN <<>>
    ELSE LET week_end == WeekEnd(current, pend)
         IN  <<[start |-> current, end |-> week_end]>>
             \o WeeksFrom(week_end + Days(1), pend)

get_period_weeks(pstart, pend) == WeeksFrom(pstart, pend)

\* ------------------------------------------------------------------ the period of the run
\* main, with a period argument: the period of the newest configured fiscal year
TargetPeriod(p) == get_445_periods(FISCAL_YEAR_STARTS[NumFiscalYears])[p]

NoWeek == 0

\* date_to_week_idx: the first week with start <= dt <= end, weeks counted from 1
date_to_week_idx(dt) ==
    LET hit == {i \in 1..Len(period_weeks) :
                   period_weeks[i].start <= dt /\ dt <= period_weeks[i].end}
    IN  IF hit = {} THEN NoWeek ELSE Min(hit)

\* ------------------------------------------------------------------ R365 pull
RECURSIVE SortedIds(_)
SortedIds(S) == IF S = {} THEN <<>> ELSE <<Min(S)>> \o SortedIds(S \ {Min(S)})

\* the answer of the Transaction view to one request:
\*   $top=5000&$filter=type eq '<txn_type>' and date ge <start>T00:00:00Z
\*                                          and date le <end>T23:59:59Z
\* the matching headers in id order, at most PageRows of them; the request
\* carries no $skip and is made once
FetchTransactions(txn_type, start, end) ==
    LET ids == {id \in DOMAIN upTxns :
                   /\ upTxns[id].type = txn_type
                   /\ Midnight(start) <= upTxns[id].date
                   /\ upTxns[id].date <= EndOfDay(end)}
        order == SortedIds(ids)
    IN  [k \in 1..Min({Len(order), PageRows}) |-> upTxns[order[k]]]

TxnEndGraceForAll(txn_type, chunk_end, pend) == chunk_end

\* the last day asked for: only Stock Counts get the grace day
TxnEnd(txn_type, chunk_end, pend) ==
    IF txn_type # "Stock Count" THEN Min({chunk_end, pend}) ELSE chunk_end

\* one request to the Transaction view: a type and a date range, in days
TransactionRequest(txn_type, start, end) ==
    [view |-> "Transaction", type |-> txn_type, start |-> start, end |-> end]

\* the requests of one chunk, one per transaction type
RECURSIVE PullTypes(_, _, _, _)
PullTypes(k, current, chunk_end, pend) ==
    IF k > Len(COGS_TXN_TYPES) THEN <<>>
    ELSE <<TransactionRequest(COGS_TXN_TYPES[k], current,
                              TxnEnd(COGS_TXN_TYPES[k], chunk_end, pend))>>
         \o PullTypes(k + 1, current, chunk_end, pend)

ChunkEndOverlong(current, pull_end) == Min({current + Days(31), pull_end})

\* chunk_end = min(current + timedelta(days=30), pull_end)
ChunkEnd(current, pull_end) == Min({current + Days(30), pull_end})

RECURSIVE PullChunks(_, _, _)
PullChunks(current, pull_end, pend) ==
    IF current > pull_end THEN <<>>
    ELSE LET chunk_end == ChunkEnd(current, pull_end)
         IN  PullTypes(1, current, chunk_end, pend)
             \o PullChunks(chunk_end + Days(1), pull_end, pend)

\* the requests of a pull, in the order they are made
PullRequests(pstart, pend) == PullChunks(pstart, pend + Days(1), pend)

\* try: records = r365_fetch(url)...; except: print, and go on
RECURSIVE FetchEach(_)
FetchEach(reqs) ==
    IF reqs = <<>> THEN <<>>
    ELSE (IF Head(reqs) \in outage THEN <<>>
          ELSE FetchTransactions(Head(reqs).type, Head(reqs).start, Head(reqs).end))
         \o FetchEach(Tail(reqs))

pull_transactions_for_period(pstart, pend) == FetchEach(PullRequests(pstart, pend))

Range(f) == {f[x] : x \in DOMAIN f}

\* main: the Stock Counts of [period_start - 3 days, period_start]
BeginInvRequest ==
    TransactionRequest("Stock Count", period_start - Days(3), period_start)

\* except: begin_inv_txns = []
BeginInvTxns ==
    IF BeginInvRequest \in outage THEN <<>>
    ELSE FetchTransactions("Stock Count", period_start - Days(3), period_start)

\* the bulk read of the TransactionDetail view
DetailRequest == [view |-> "TransactionDetail"]

\* one day of one store's orders
SalesRequest(store_num, day) == [view |-> "ordersBulk", store |-> store_num, day |-> day]

\* pull_transaction_details: all rows, filtered by transactionId
pull_transaction_details(txn_ids) ==
    LET keep(td) == td.transactionId \in txn_ids
    IN  SelectSeq(upDetails, keep)

txn_lookup(txn_id) == CHOOSE t \in Range(transactions) : t.transactionId = txn_id

\* ------------------------------------------------------------------ weeks and chunks of any period
\* the functions applied to periods of 1..MaxSpanDays days, and main's
\* get_445_periods followed by get_period_weeks
SpanInit ==
    /\ fy_start \in {Days(d) : d \in FyStartDays}
    /\ clock = fy_start
    /\ cal_op = ""
    /\ cal_periods = <<>>
    /\ cal_found = NotFound
    /\ SpanOff
    /\ MainOff
    /\ FetchOff
    /\ SalesOff
    /\ AuxOff

CallGetPeriodWeeks ==
    /\ cal_op = ""
    /\ \E n \in 1..MaxSpanDays :
          /\ cal_span' = <<fy_start, fy_start + Days(n - 1)>>
          /\ cal_weeks' = get_period_weeks(fy_start, fy_start + Days(n - 1))
    /\ cal_op' = "get_period_weeks"
    /\ UNCHANGED <<fy_start, clock, cal_periods, cal_found, cal_requests,
                   mainVars, fetchVars, salesVars, auxVars>>

\* main: the weeks of a period of the configured fiscal year
CallMainPeriodWeeks ==
    /\ cal_op = ""
    /\ \E p \in 1..Len(get_445_periods(fy_start)) :
          LET per == get_445_periods(fy_start)[p]
          IN  /\ cal_span' = <<per.start, per.end>>
              /\ cal_weeks' = get_period_weeks(per.start, per.end)
    /\ cal_periods' = get_445_periods(fy_start)
    /\ cal_op' = "main.period_weeks"
    /\ UNCHANGED <<fy_start, clock, cal_found, cal_requests,
                   mainVars, fetchVars, salesVars, auxVars>>

CallPullRequests ==
    /\ cal_op = ""
    /\ \E n \in 1..MaxSpanDays :
          /\ cal_span' = <<fy_start, fy_start + Days(n - 1)>>
          /\ cal_requests' = PullRequests(fy_start, fy_start + Days(n - 1))
    /\ cal_op' = "pull_transactions_for_period"
    /\ UNCHANGED <<fy_start, clock, cal_periods, cal_found, cal_weeks,
                   mainVars, fetchVars, salesVars, auxVars>>

SpanNext ==
    \/ CallGetPeriodWeeks
    \/ CallMainPeriodWeeks
    \/ CallPullRequests

SpecSpan == SpanInit /\ [][SpanNext]_vars

\* ------------------------------------------------------------------ r365_fetch and r365_fetch_all
\* A page holds PageRows rows ($top=5000 in the script), and max_records is
\* ten pages (50000).  A row of the view is its position in the view.
MaxRecordPages == 10
max_records == MaxRecordPages * PageRows
retries == 3

TableSizes == 0..(max_records + PageRows + 1)

\* the answer to $top=PageRows&$skip=n
UpstreamPage(n) ==
    [k \in 1..Min({PageRows, Max({table_rows - n, 0})}) |-> n + k]

BackoffWaitConstant(att) == 5

\* wait = (attempt + 1) * 5
BackoffWait(att) == (att + 1) * 5

NoResponse == [has |-> FALSE, value |-> <<>>]

FetchInit ==
    /\ fy_start = Days(FirstConfigDay)
    /\ clock = fy_start
    /\ cal_op = ""
    /\ cal_periods = <<>>
    /\ cal_found = NotFound
    /\ SpanOff
    /\ MainOff
    /\ SalesOff
    /\ AuxOff
    /\ table_rows \in TableSizes
    /\ fa_pc = "page"
    /\ skip = 0
    /\ all_records = <<>>
    /\ attempt = 0
    /\ fetch_log = <<>>
    /\ fetch_returned = NoResponse

\* r365_fetch_all: data = r365_fetch(page_url), entering the retry loop
FetchAllPage ==
    /\ fa_pc = "page"
    /\ fa_pc' = "attempt"
    /\ attempt' = 0
    /\ fetch_log' = <<>>
    /\ fetch_returned' = NoResponse
    /\ UNCHANGED <<calVars, mainVars, salesVars, auxVars, table_rows, skip, all_records>>

\* r365_fetch: the request is answered; r365_fetch_all adds the page and
\* either stops or moves to the next page
AttemptSucceeds ==
    /\ fa_pc = "attempt"
    /\ LET records == UpstreamPage(skip)
       IN  /\ fetch_log' = Append(fetch_log, [op |-> "GET", url |-> skip, ok |-> TRUE])
           /\ fetch_returned' = [has |-> TRUE, value |-> records]
           /\ all_records' = all_records \o records
           /\ IF Len(records) < PageRows \/ Len(all_records') >= max_records
              THEN fa_pc' = "returned" /\ skip' = skip
              ELSE fa_pc' = "page" /\ skip' = skip + PageRows
    /\ UNCHANGED <<calVars, mainVars, salesVars, auxVars, table_rows, attempt>>

\* r365_fetch: the request raises; sleep and go round, or re-raise
AttemptFails ==
    /\ fa_pc = "attempt"
    /\ IF attempt < retries - 1
       THEN /\ fetch_log' = fetch_log
                   \o <<[op |-> "GET", url |-> skip, ok |-> FALSE],
                        [op |-> "sleep", wait |-> BackoffWait(attempt)]>>
            /\ attempt' = attempt + 1
            /\ fa_pc' = "attempt"
       ELSE /\ fetch_log' = Append(fetch_log, [op |-> "GET", url |-> skip, ok |-> FALSE])
            /\ attempt' = attempt
            /\ fa_pc' = "raised"
    /\ UNCHANGED <<calVars, mainVars, salesVars, auxVars, table_rows, skip, all_records,
                   fetch_returned>>

FetchNext ==
    \/ FetchAllPage
    \/ AttemptSucceeds
    \/ AttemptFails

SpecFetch == FetchInit /\ [][FetchNext]_vars

\* ------------------------------------------------------------------ toast_get and pull_toast_sales_day
\* A page holds OrdersPageRows orders (pageSize=100 in the script).  Order k
\* of the business date has one check of k dollars; every third order is
\* voided and every fourth order's check is voided.
Order(k) == [voided |-> k % 3 = 0,
             checks |-> <<[voided |-> k % 4 = 0, amount |-> 100 * k]>>]

\* the answer to pageSize=OrdersPageRows&page=p
ToastPage(p) ==
    [k \in 1..Min({OrdersPageRows,
                   Max({orders_count - (p - 1) * OrdersPageRows, 0})}) |->
        Order((p - 1) * OrdersPageRows + k)]

\* the amounts of the checks that are not voided, of the orders not voided
RECURSIVE PageNetSales(_)
PageNetSales(orders) ==
    IF orders = <<>> THEN 0
    ELSE (IF Head(orders).voided \/ Head(orders).checks[1].voided THEN 0
          ELSE Head(orders).checks[1].amount)
         + PageNetSales(Tail(orders))

\* what urlopen can raise: HTTPError 429, HTTPError 5xx, or a URLError /
\* timeout that is no HTTPError
ToastErrors == {"429", "5xx", "network"}

ToastInit ==
    /\ fy_start = Days(FirstConfigDay)
    /\ clock = fy_start
    /\ cal_op = ""
    /\ cal_periods = <<>>
    /\ cal_found = NotFound
    /\ SpanOff
    /\ MainOff
    /\ FetchOff
    /\ SalesOff
    /\ PureOff
    /\ orders_count \in 0..MaxOrders
    /\ toast_pc = "page"
    /\ page = 1
    /\ net_sales = 0
    /\ toast_attempt = 0
    /\ toast_log = <<>>
    /\ toast_error = ""

\* pull_toast_sales_day: orders = toast_get(url, ...), entering the loop
ToastGetPage ==
    /\ toast_pc = "page"
    /\ toast_pc' = "attempt"
    /\ toast_attempt' = 0
    /\ toast_log' = <<>>
    /\ UNCHANGED <<calVars, mainVars, fetchVars, salesVars, pureVars,
                   orders_count, page, net_sales, toast_error>>

\* toast_get: the request is answered; pull_toast_sales_day adds the page
\* and either returns or asks for the next page
ToastAttemptSucceeds ==
    /\ toast_pc = "attempt"
    /\ LET orders == ToastPage(page)
       IN  /\ toast_log' = Append(toast_log,
                                  [op |-> "GET", url |-> page, ok |-> TRUE, err |-> ""])
           /\ net_sales' = net_sales + PageNetSales(orders)
           /\ IF Len(orders) < OrdersPageRows
              THEN toast_pc' = "returned" /\ page' = page
              ELSE toast_pc' = "page" /\ page' = page + 1
    /\ UNCHANGED <<calVars, mainVars, fetchVars, salesVars, pureVars,
                   orders_count, toast_attempt, toast_error>>

\* toast_get: the request raises.  Only an HTTPError is caught, and only a
\* 429 before the last attempt is slept on; everything else is raised
ToastAttemptFails ==
    /\ toast_pc = "attempt"
    /\ \E e \in ToastErrors :
          LET get == [op |-> "GET", url |-> page, ok |-> FALSE, err |-> e]
          IN  IF e = "429" /\ toast_attempt < retries - 1
              THEN /\ toast_log' = toast_log
                          \o <<get, [op |-> "sleep", wait |-> BackoffWait(toast_attempt)]>>
                   /\ toast_attempt' = toast_attempt + 1
                   /\ toast_pc' = "attempt"
                   /\ toast_error' = toast_error
              ELSE /\ toast_log' = Append(toast_log, get)
                   /\ toast_attempt' = toast_attempt
                   /\ toast_pc' = "raised"
                   /\ toast_error' = e
    /\ UNCHANGED <<calVars, mainVars, fetchVars, salesVars, pureVars,
                   orders_count, page, net_sales>>

ToastNext ==
    \/ ToastGetPage
    \/ ToastAttemptSucceeds
    \/ ToastAttemptFails

SpecToast == ToastInit /\ [][ToastNext]_vars

\* ------------------------------------------------------------------ extract_vendor_name
\* A transaction name is a string, here a sequence of characters.
NameChars == {"a", " ", "-"}
Names == UNION {[1..n -> NameChars] : n \in 0..MaxNameLen}
Separator == <<" ", "-", " ">>
Unknown == <<"U", "n", "k", "n", "o", "w", "n">>

StartsWithSeparator(s) ==
    Len(s) >= Len(Separator) /\ SubSeq(s, 1, Len(Separator)) = Separator

\* str.split(" - "): the separator is matched from the left, the matches do
\* not overlap; cur is the part being read
RECURSIVE SplitFrom(_, _)
SplitFrom(s, cur) ==
    IF StartsWithSeparator(s)
    THEN <<cur>> \o SplitFrom(SubSeq(s, Len(Separator) + 1, Len(s)), <<>>)
    ELSE IF s = <<>> THEN <<cur>>
    ELSE SplitFrom(Tail(s), Append(cur, Head(s)))

split(s) == SplitFrom(s, <<>>)

\* str.strip(): the blanks at both ends are removed
RECURSIVE lstrip(_)
lstrip(s) == IF s # <<>> /\ Head(s) = " " THEN lstrip(Tail(s)) ELSE s

RECURSIVE rstrip(_)
rstrip(s) ==
    IF s # <<>> /\ s[Len(s)] = " " THEN rstrip(SubSeq(s, 1, Len(s) - 1)) ELSE s

strip(s) == rstrip(lstrip(s))

extract_vendor_name(name) ==
    IF name = <<>> THEN Unknown
    ELSE LET parts == split(name)
         IN  IF Len(parts) >= 2 THEN strip(parts[2]) ELSE name

PureInit ==
    /\ fy_start = Days(FirstConfigDay)
    /\ clock = fy_start
    /\ cal_op = ""
    /\ cal_periods = <<>>
    /\ cal_found = NotFound
    /\ SpanOff
    /\ MainOff
    /\ FetchOff
    /\ SalesOff
    /\ ToastOff
    /\ txn_name \in Names
    /\ vendor = [has |-> FALSE, value |-> <<>>]

CallExtractVendorName ==
    /\ ~vendor.has
    /\ vendor' = [has |-> TRUE, value |-> extract_vendor_name(txn_name)]
    /\ UNCHANGED <<calVars, mainVars, fetchVars, salesVars, toastVars, txn_name>>

PureNext == CallExtractVendorName

SpecPure == PureInit /\ [][PureNext]_vars

\* ------------------------------------------------------------------ processing
\* loc_id = td.get("locationId") or txn.get("locationId", "")
\* store_num = loc_id_to_num.get(loc_id, "Unknown")
StoreOfFallsBackToHeader(td, txn) ==
    IF td.locationId \in DOMAIN loc_id_to_num
          /\ loc_id_to_num[td.locationId] \in STORE_NAMES
    THEN loc_id_to_num[td.locationId]
    ELSE IF txn.locationId \in DOMAIN loc_id_to_num
         THEN loc_id_to_num[txn.locationId] ELSE "Unknown"

StoreOf(td, txn) ==
    LET loc_id == IF td.locationId # "" THEN td.locationId ELSE txn.locationId
    IN  IF loc_id \in DOMAIN loc_id_to_num THEN loc_id_to_num[loc_id] ELSE "Unknown"

\* not (store_num == "Unknown" or store_num not in STORE_NAMES)
KnownStore(store_num) == store_num # "Unknown" /\ store_num \in STORE_NAMES

\* second pass: the week a transaction is bucketed into; a Stock Count dated
\* the day after the period end goes to the last week
WeekIdxFor(txn_type, txn_date) ==
    LET week_idx == date_to_week_idx(txn_date)
        grace_end == period_end + Days(1)
    IN  IF week_idx = NoWeek /\ txn_type = "Stock Count"
              /\ DateOf(txn_date) = DateOf(grace_end)
        THEN Len(period_weeks)
        ELSE week_idx

FlowFields ==
    {"purchases_food", "purchases_packaging", "purchases_beverage", "purchases_other",
     "purchases_total", "credits", "waste", "inventory_begin", "inventory_end",
     "invoices_total", "invoices_approved", "invoices_unapproved"}

NoDelta == [f \in FlowFields |-> 0]

\* waste_amt = abs(amount) if amount < 0 else debit
WasteAmt(td) == IF td.amount < 0 THEN 0 - td.amount ELSE td.debit

InvoiceAmountSigned(td) == td.amount

\* an AP Invoice row counts with its debit
InvoiceAmount(td) == td.debit

CategoryFieldNoOther(cogs_cat) ==
    IF cogs_cat = "Food" THEN "purchases_food"
    ELSE IF cogs_cat = "Packaging" THEN "purchases_packaging"
    ELSE IF cogs_cat = "Beverage" THEN "purchases_beverage"
    ELSE "purchases_total"

\* the category counter an AP Invoice row is added to
CategoryField(cogs_cat) ==
    IF cogs_cat = "Food" THEN "purchases_food"
    ELSE IF cogs_cat = "Packaging" THEN "purchases_packaging"
    ELSE IF cogs_cat = "Beverage" THEN "purchases_beverage"
    ELSE "purchases_other"

\* what one detail row adds to the aggregate of its week and of the period
LineDeltas(txn, td) ==
    LET gl_num == GlNumber(td.glAccountId)
        cogs_cat == CogsCat(td.glAccountId)
        cat_field == CategoryField(cogs_cat)
    IN  IF txn.type = "AP Invoice" /\ td.rowType = "Detail"
        THEN [f \in FlowFields |->
                 IF f \in {cat_field, "purchases_total"}
                 THEN (IF StartsWith5(gl_num) THEN InvoiceAmount(td) ELSE 0)
                 ELSE IF f = "invoices_total" THEN 1
                 ELSE IF f = "invoices_approved" THEN (IF txn.isApproved THEN 1 ELSE 0)
                 ELSE IF f = "invoices_unapproved" THEN (IF txn.isApproved THEN 0 ELSE 1)
                 ELSE 0]
        ELSE IF txn.type = "AP Credit Memo" /\ td.rowType = "Detail"
        THEN [NoDelta EXCEPT !["credits"] = IF StartsWith5(gl_num) THEN td.credit ELSE 0]
        ELSE IF txn.type = "Waste Log" /\ td.rowType = "Detail"
        THEN [NoDelta EXCEPT !["waste"] = WasteAmt(td)]
        ELSE IF txn.type = "Stock Count" /\ td.rowType = "Detail"
        THEN [NoDelta EXCEPT
                 !["inventory_end"] = IF StartsWith5(gl_num) THEN td.amount ELSE 0,
                 !["inventory_begin"] =
                     IF StartsWith5(gl_num) THEN td.previousCountTotal ELSE 0]
        ELSE NoDelta

\* wd["has_stock_count"] = True
LineHasCount(txn, td) ==
    /\ txn.type = "Stock Count"
    /\ td.rowType = "Detail"
    /\ StartsWith5(GlNumber(td.glAccountId))

WeekFields == FlowFields \cup {"net_purchases"}
PeriodFields == (FlowFields \ {"invoices_unapproved"}) \cup {"net_purchases"}

NewWeekData == [f \in WeekFields |-> 0] @@ [has_stock_count |-> FALSE]
NewPeriodData == [f \in PeriodFields |-> 0] @@ [has_stock_count |-> FALSE]

Accumulate(agg, txn, td) ==
    [f \in DOMAIN agg |->
        IF f = "has_stock_count" THEN agg[f] \/ LineHasCount(txn, td)
        ELSE IF f \in FlowFields THEN agg[f] + LineDeltas(txn, td)[f]
        ELSE agg[f]]

\* first pass: does the row add to the beginning inventory, and how much
BeginInvLine(td) ==
    /\ td.transactionId \in begin_inv_txn_ids
    /\ td.rowType = "Detail"
    /\ KnownStore(StoreOf(td, txn_lookup(td.transactionId)))
    /\ StartsWith5(GlNumber(td.glAccountId))

\* second pass: the note printed once for a Stock Count dated the day after
\* the period end; nothing else is printed inside the loop
GraceNote(td) ==
    LET txn == txn_lookup(td.transactionId)
        _grace_logged == {printed[i].txn : i \in DOMAIN printed}
    IN  IF /\ td.transactionId \notin begin_inv_txn_ids
           /\ date_to_week_idx(txn.date) = NoWeek
           /\ WeekIdxFor(txn.type, txn.date) # NoWeek
           /\ td.transactionId \notin _grace_logged
        THEN <<[note |-> "Stock Count (day after period end) -> assigned to Week",
                txn |-> td.transactionId, week |-> WeekIdxFor(txn.type, txn.date)]>>
        ELSE <<>>

BucketedWithBeginInv(td) ==
    /\ WeekIdxFor(txn_lookup(td.transactionId).type,
                  txn_lookup(td.transactionId).date) # NoWeek
    /\ KnownStore(StoreOf(td, txn_lookup(td.transactionId)))

\* second pass: is the row bucketed
Bucketed(td) ==
    /\ td.transactionId \notin begin_inv_txn_ids
    /\ WeekIdxFor(txn_lookup(td.transactionId).type,
                  txn_lookup(td.transactionId).date) # NoWeek
    /\ KnownStore(StoreOf(td, txn_lookup(td.transactionId)))

NetPurchasesClamped(purchases_total, credits) ==
    IF purchases_total - credits < 0 THEN 0 ELSE purchases_total - credits

NetPurchases(purchases_total, credits) == purchases_total - credits

InvCogsFallsBack(bi, np, ei) == IF bi > 0 /\ ei > 0 THEN bi + np - ei ELSE np

\* Period COGS = Beginning Inventory + Net Purchases - Ending Inventory
InvCogs(bi, np, ei) == IF bi > 0 /\ ei > 0 THEN bi + np - ei ELSE 0

\* round(n / d, 0) for d > 0, ties to even
RoundDiv(n, d) ==
    LET q == n \div d
        r == n % d
    IN  IF 2 * r < d THEN q
        ELSE IF 2 * r > d THEN q + 1
        ELSE IF q % 2 = 0 THEN q ELSE q + 1

PctGuardAllowsZero(ns) == ns >= 0

\* `... if ns > 0 else 0`: is the quotient evaluated
PctGuard(ns) == ns > 0

\* x / ns raises ZeroDivisionError when it is evaluated with ns = 0
PctRaises(ns) == PctGuard(ns) /\ ns = 0

\* round(x / ns * 100, 1) if ns > 0 else 0, in tenths of a percent
CogsPct(x, ns) == IF PctGuard(ns) THEN RoundDiv(x * 1000, ns) ELSE 0

\* round(inv_cogs / ns * 100, 1) if ns > 0 and inv_cogs != 0 else 0
InvCogsPct(inv_cogs, ns) ==
    IF PctGuard(ns) /\ inv_cogs # 0 THEN RoundDiv(inv_cogs * 1000, ns) ELSE 0

RECURSIVE SumF(_, _)
SumF(f, S) ==
    IF S = {} THEN 0
    ELSE LET x == CHOOSE y \in S : TRUE IN f[x] + SumF(f, S \ {x})

\* ------------------------------------------------------------------ upstream data of a run
TargetPeriods == {1, 3}

Header(id, type, date, loc, approved) ==
    [transactionId |-> id, type |-> type, date |-> date, locationId |-> loc,
     isApproved |-> approved]

Line(id, row_type, loc, gl_id, amt) ==
    [transactionId |-> id, rowType |-> row_type, locationId |-> loc,
     glAccountId |-> gl_id, debit |-> amt[1], credit |-> amt[2], amount |-> amt[3],
     previousCountTotal |-> amt[4]]

TypeSet == {COGS_TXN_TYPES[k] : k \in 1..Len(COGS_TXN_TYPES)}

\* <<debit, credit, amount, previousCountTotal>> of a detail row, in cents
AmountsA == <<300, 500, 700, 600>>
AmountsB == <<400, 100, 900, 200>>
AmountsNeg == <<250, 0, -150, 0>>

\* one transaction with one detail row: every combination of the attributes
ProbeDates ==
    {period_start - Days(4), period_start - Days(3), period_start,
     period_start + Days(6) + 1, period_end - Days(1), period_end + 1,
     period_end + Days(1), period_end + Days(1) + 1, period_end + Days(2)}

ProbeUpstreams ==
    {[txns |-> <<Header(1, ty, dt, hl, TRUE)>>,
      details |-> <<Line(1, rt, dl, gl, amt)>>] :
        ty \in TypeSet, dt \in ProbeDates, hl \in {"L1", "LX"},
        rt \in {"Detail", "Header"}, dl \in {"", "L2", "L9"},
        gl \in {"G5110", "G5999", "G6100", "G0000"},
        amt \in {AmountsA, AmountsNeg, <<0, 0, 0, 0>>}}

\* MaxLines transactions of the known stores with one COGS detail row each
AggPool ==
    {<<Header(0, ty, dt, "L1", TRUE), Line(0, "Detail", "", "G5110", amt)>> :
        ty \in {"AP Invoice", "AP Credit Memo", "Stock Count"},
        dt \in {period_start - Days(1), period_start + Days(1), period_end},
        amt \in {AmountsA, AmountsB}}
    \cup
    {<<Header(0, ty, dt, "L2", FALSE), Line(0, "Detail", "", "G5210", AmountsA)>> :
        ty \in {"AP Invoice", "Stock Count"},
        dt \in {period_start + Days(1)}}

AggUpstreams ==
    {[txns |-> [i \in 1..MaxLines |-> [c[i][1] EXCEPT !.transactionId = i]],
      details |-> [i \in 1..MaxLines |-> [c[i][2] EXCEPT !.transactionId = i]]] :
        c \in [1..MaxLines -> AggPool]}

\* one AP Invoice of a known store with MaxLines COGS detail rows
MultiLineUpstreams ==
    {[txns |-> <<Header(1, "AP Invoice", period_start + Days(1), "L1", ap)>>,
      details |-> [i \in 1..MaxLines |-> Line(1, "Detail", "", "G5110", AmountsA)]] :
        ap \in BOOLEAN}

\* PageRows + 1 AP Invoices of one store dated the same day of the period
OverfullUpstreams ==
    {[txns |-> [i \in 1..(PageRows + 1) |->
                   Header(i, "AP Invoice", period_start + Days(1), "L1", TRUE)],
      details |-> [i \in 1..(PageRows + 1) |->
                      Line(i, "Detail", "", "G5110", AmountsA)]]}

\* ------------------------------------------------------------------ cogs_dashboard.main
WeekIdxs == 1..Len(period_weeks)

\* the state in which main starts: a period argument, the upstream data and
\* the requests that will fail
RunInit(periods, upstreams, outages) ==
    /\ fy_start = Days(FirstConfigDay)
    /\ clock = fy_start + Days(364 * NumFiscalYears)
    /\ cal_op = ""
    /\ cal_periods = <<>>
    /\ cal_found = NotFound
    /\ SpanOff
    /\ FetchOff
    /\ SalesOff
    /\ AuxOff
    /\ target_period \in periods
    /\ period_start = TargetPeriod(target_period).start
    /\ period_end = TargetPeriod(target_period).end
    /\ period_weeks = get_period_weeks(period_start, period_end)
    /\ pc = "start"
    /\ \E up \in upstreams :
          /\ upTxns = up.txns
          /\ upDetails = up.details
    /\ outage \in outages
    /\ transactions = <<>>
    /\ begin_inv_txn_ids = {}
    /\ details = <<>>
    /\ idx = 1
    /\ begin_inventory = [sn \in STORE_NAMES |-> 0]
    /\ week_data = [wi \in WeekIdxs |-> [sn \in STORE_NAMES |-> NewWeekData]]
    /\ period_data = [sn \in STORE_NAMES |-> NewPeriodData]
    /\ week_sales = [wi \in WeekIdxs |-> [sn \in STORE_NAMES |-> 0]]
    /\ period_sales = [sn \in STORE_NAMES |-> 0]
    /\ dashboard_data = <<>>
    /\ printed = <<>>

\* every upstream request is answered
Init ==
    RunInit(TargetPeriods,
            ProbeUpstreams \cup AggUpstreams \cup MultiLineUpstreams \cup OverfullUpstreams,
            {{}})

\* one upstream request fails on every attempt
ErrOutages ==
    {{}} \cup {{r} : r \in Range(PullRequests(period_start, period_end))}
        \cup {{BeginInvRequest}, {DetailRequest}}
        \cup {{SalesRequest(sn, DateOf(d))} :
                  sn \in STORE_NAMES, d \in {period_start, period_end}}

InitErr == RunInit({1}, AggUpstreams, ErrOutages)

\* Step 2: transactions = pull_transactions_for_period(period_start, period_end)
PullTransactions ==
    /\ pc = "start"
    /\ transactions' = pull_transactions_for_period(period_start, period_end)
    /\ pc' = "pulled"
    /\ UNCHANGED <<calVars, fetchVars, salesVars, auxVars, printed, outage, target_period, period_start, period_end, period_weeks, upTxns, upDetails, begin_inv_txn_ids,
                   details, idx, begin_inventory, week_data, period_data, week_sales,
                   period_sales, dashboard_data>>

\* the beginning-inventory pull, merged into the transaction list
PullBeginInventory ==
    /\ pc = "pulled"
    /\ LET begin_inv_txns == BeginInvTxns
           existing_ids == {t.transactionId : t \in Range(transactions)}
           isNew(t) == t.transactionId \notin existing_ids
       IN  /\ begin_inv_txn_ids' = {t.transactionId : t \in Range(begin_inv_txns)}
           /\ transactions' = transactions \o SelectSeq(begin_inv_txns, isNew)
    /\ pc' = "begin"
    /\ UNCHANGED <<calVars, fetchVars, salesVars, auxVars, printed, outage, target_period, period_start, period_end, period_weeks, upTxns, upDetails, details, idx,
                   begin_inventory, week_data, period_data, week_sales, period_sales,
                   dashboard_data>>

\* Step 3: details = pull_transaction_details(txn_ids)
\* r365_fetch_all is not inside a try: its error ends the run
PullDetails ==
    /\ pc = "begin"
    /\ details' = IF DetailRequest \in outage THEN <<>>
                  ELSE pull_transaction_details(
                           {t.transactionId : t \in Range(transactions)})
    /\ idx' = 1
    /\ pc' = IF DetailRequest \in outage THEN "aborted"
             ELSE IF Len(details') = 0 THEN "calc" ELSE "pass1"
    /\ UNCHANGED <<calVars, fetchVars, salesVars, auxVars, printed, outage, target_period, period_start, period_end, period_weeks, upTxns, upDetails, transactions,
                   begin_inv_txn_ids, begin_inventory, week_data, period_data,
                   week_sales, period_sales, dashboard_data>>

\* one iteration of the first pass
FirstPassLine ==
    /\ pc = "pass1"
    /\ LET td == details[idx]
           txn == txn_lookup(td.transactionId)
           store_num == StoreOf(td, txn)
       IN  IF BeginInvLine(td)
           THEN begin_inventory' = [begin_inventory EXCEPT ![store_num] = @ + td.amount]
           ELSE UNCHANGED begin_inventory
    /\ idx' = IF idx = Len(details) THEN 1 ELSE idx + 1
    /\ pc' = IF idx = Len(details) THEN "pass2" ELSE "pass1"
    /\ UNCHANGED <<calVars, fetchVars, salesVars, auxVars, printed, outage, target_period, period_start, period_end, period_weeks, upTxns, upDetails, transactions,
                   begin_inv_txn_ids, details, week_data, period_data, week_sales,
                   period_sales, dashboard_data>>

\* one iteration of the second pass
SecondPassLine ==
    /\ pc = "pass2"
    /\ LET td == details[idx]
           txn == txn_lookup(td.transactionId)
           week_idx == WeekIdxFor(txn.type, txn.date)
           store_num == StoreOf(td, txn)
       IN  IF Bucketed(td)
           THEN /\ week_data' = [week_data EXCEPT
                                    ![week_idx][store_num] = Accumulate(@, txn, td)]
                /\ period_data' = [period_data EXCEPT
                                      ![store_num] = Accumulate(@, txn, td)]
           ELSE UNCHANGED <<week_data, period_data>>
    /\ printed' = printed \o GraceNote(details[idx])
    /\ idx' = IF idx = Len(details) THEN 1 ELSE idx + 1
    /\ pc' = IF idx = Len(details) THEN "calc" ELSE "pass2"
    /\ UNCHANGED <<calVars, fetchVars, salesVars, auxVars, outage, target_period, period_start, period_end, period_weeks, upTxns, upDetails, transactions,
                   begin_inv_txn_ids, details, begin_inventory, week_sales,
                   period_sales, dashboard_data>>

\* net purchases per week and store, and the inventory-method COGS per store
CalcNetAndInvCogs ==
    /\ pc = "calc"
    /\ week_data' =
          [wi \in WeekIdxs |-> [sn \in STORE_NAMES |->
              [week_data[wi][sn] EXCEPT
                  !.net_purchases = NetPurchases(week_data[wi][sn].purchases_total,
                                                 week_data[wi][sn].credits)]]]
    /\ period_data' =
          [sn \in STORE_NAMES |->
              LET np == NetPurchases(period_data[sn].purchases_total,
                                     period_data[sn].credits)
                  bi == begin_inventory[sn]
                  ei == period_data[sn].inventory_end
              IN  [period_data[sn] EXCEPT !.net_purchases = np]
                      @@ [begin_inventory |-> bi, inv_cogs |-> InvCogs(bi, np, ei)]]
    /\ pc' = "sales"
    /\ UNCHANGED <<calVars, fetchVars, salesVars, auxVars, printed, outage, target_period, period_start, period_end, period_weeks, upTxns, upDetails, transactions,
                   begin_inv_txn_ids, details, idx, begin_inventory, week_sales,
                   period_sales, dashboard_data>>

\* net sales of one store and day, in cents, as Toast reports them
SalesValues == {0, 10000}

\* the daily net sales of the stores: every combination of SalesValues, and
\* one store with more refunds than sales that cancels the other store
SalesRates ==
    [STORE_NAMES -> SalesValues]
        \cup {[sn \in STORE_NAMES |-> IF sn = "8001" THEN 0 - 500 ELSE 500]}

NoCache == [sn \in STORE_NAMES |-> [d \in {} |-> 0]]

FromCacheUpToYesterday(cache_sn, d, yesterday) ==
    d \in DOMAIN cache_sn /\ Days(d) <= yesterday

\* if date_str in store_cache and current < yesterday
FromCache(cache_sn, d, yesterday) ==
    d \in DOMAIN cache_sn /\ Days(d) < yesterday

\* current = start; while current <= end: ...; current += timedelta(days=1)
DaysIn(store_num, start, end) ==
    [k \in 1..Max({0, DateOf(end) - DateOf(start) + 1}) |->
        SalesRequest(store_num, DateOf(start) + k - 1)]

\* sorted(): the store numbers in increasing order ("8001" < "8002")
StoreRank == [sn \in STORE_NAMES |-> IF sn = "8001" THEN 1 ELSE 2]

SortedStores(S) ==
    [k \in 1..Cardinality(S) |-> CHOOSE sn \in S : StoreRank[sn] = k]

\* for store_num in sorted(TOAST_RESTAURANTS.keys())
StoreOrder == SortedStores(STORE_NAMES)

RECURSIVE StoreDays(_, _, _)
StoreDays(i, start, end) ==
    IF i > Len(StoreOrder) THEN <<>>
    ELSE DaysIn(StoreOrder[i], start, end) \o StoreDays(i + 1, start, end)

\* pull_period_sales: the daily net sales per store it returns.  cache: what
\* the cache files hold; toast: the net sales Toast has for each store and
\* day; failing: the requests that raise; now: the clock
store_sales_of(cache, toast, failing, now, pstart, pend) ==
    LET today == Midnight(now)
        yesterday == today - Days(1)
        data_end == Min({yesterday, pend})
        dayset == DateOf(pstart)..DateOf(data_end)
    IN  [sn \in STORE_NAMES |-> [d \in dayset |->
            IF FromCache(cache[sn], d, yesterday)
            THEN cache[sn][d]
            ELSE IF SalesRequest(sn, d) \in failing THEN 0
            ELSE toast[sn][d]]]

\* pull_period_sales: what it returns, the cache files it leaves, the days it
\* goes through and the days it asks Toast for
pull_period_sales(cache, toast, failing, now, pstart, pend) ==
    LET today == Midnight(now)
        yesterday == today - Days(1)
        data_end == Min({yesterday, pend})
        dayset == DateOf(pstart)..DateOf(data_end)
        daily == store_sales_of(cache, toast, failing, now, pstart, pend)
        processed == StoreDays(1, pstart, data_end)
        miss(r) == ~FromCache(cache[r.store], r.day, yesterday)
    IN  [store_sales |-> daily,
         store_cache |-> [sn \in STORE_NAMES |->
                            [d \in dayset \cup DOMAIN cache[sn] |->
                                IF d \in dayset THEN daily[sn][d] ELSE cache[sn][d]]],
         processed |-> processed,
         fetched |-> SelectSeq(processed, miss)]

\* daily_dashboard.pull_sales_cached for one store: a fetched day is kept
\* only if it has checks, a failed day is not kept; the days returned are
\* written over the cache
pull_sales_cached(cache_sn, toast_sn, failing, store_num, start_date, end_date, yesterday) ==
    LET processed == DaysIn(store_num, start_date, end_date)
        dayset == DateOf(start_date)..DateOf(end_date)
        hit(d) == FromCache(cache_sn, d, yesterday)
        kept == {d \in dayset :
                    \/ hit(d)
                    \/ /\ SalesRequest(store_num, d) \notin failing
                       /\ toast_sn[d].checks > 0}
        daily == [d \in kept |-> IF hit(d) THEN cache_sn[d] ELSE toast_sn[d]]
        miss(r) == ~hit(r.day)
    IN  [daily |-> daily,
         cache |-> [d \in kept \cup DOMAIN cache_sn |->
                      IF d \in kept THEN daily[d] ELSE cache_sn[d]],
         processed |-> processed,
         fetched |-> SelectSeq(processed, miss)]

\* ------------------------------------------------------------------ pull_period_sales, run after run
\* Successive runs for one period share the cache files; Toast's figures do
\* not change between the runs.
SalesPeriod == get_445_periods(Days(FirstConfigDay))[1]

\* what Toast has: a different non-zero figure for every store and day
ToastSales ==
    LET first == DateOf(SalesPeriod.start)
        last == DateOf(SalesPeriod.end)
    IN  [sn \in STORE_NAMES |->
            [d \in first..last |->
                100 * (d - first + 1) + (IF sn = "8001" THEN 1 ELSE 2)]]

\* datetime.now() of a run
SalesClocks ==
    {SalesPeriod.start + Days(2), SalesPeriod.start + Days(3) + 1,
     SalesPeriod.start + Days(5), SalesPeriod.end + Days(2) + 1}

\* the daily pulls that raise in a run: none, or one store and day
SalesFailures ==
    {{}} \cup {{SalesRequest(sn, DateOf(SalesPeriod.start) + k)} :
                  sn \in STORE_NAMES, k \in {0, 1, 3}}

\* what pull_toast_orders_day returns: every third day has no checks
ToastDayTotals ==
    LET first == DateOf(SalesPeriod.start)
        last == DateOf(SalesPeriod.end)
        toast == ToastSales
    IN  [sn \in STORE_NAMES |->
            [d \in first..last |->
                IF (d - first) % 3 = 1
                THEN [net_sales |-> 0, checks |-> 0]
                ELSE [net_sales |-> toast[sn][d], checks |-> 5]]]

SalesInit ==
    /\ fy_start = Days(FirstConfigDay)
    /\ clock = fy_start
    /\ cal_op = ""
    /\ cal_periods = <<>>
    /\ cal_found = NotFound
    /\ SpanOff
    /\ MainOff
    /\ FetchOff
    /\ AuxOff
    /\ store_cache = NoCache
    /\ store_sales = NoCache
    /\ sales_today = SalesPeriod.start
    /\ sales_failed = {}
    /\ sales_runs = 0
    /\ sales_fn = ""
    /\ sales_processed = <<>>
    /\ sales_fetched = <<>>
    /\ daily_cache = NoCache
    /\ daily_returned = NoCache

\* one run of pull_period_sales, load_cache and save_cache included
RunPullPeriodSales ==
    /\ sales_runs < MaxRuns
    /\ \E now \in SalesClocks, failing \in SalesFailures :
          /\ now >= sales_today
          /\ LET r == pull_period_sales(store_cache, ToastSales, failing, now,
                                        SalesPeriod.start, SalesPeriod.end)
             IN  /\ store_sales' = r.store_sales
                 /\ store_cache' = r.store_cache
                 /\ sales_processed' = r.processed
                 /\ sales_fetched' = r.fetched
          /\ sales_today' = now
          /\ sales_failed' = failing
    /\ sales_runs' = sales_runs + 1
    /\ sales_fn' = "pull_period_sales"
    /\ UNCHANGED <<calVars, mainVars, fetchVars, auxVars, daily_cache, daily_returned>>

SalesNext == RunPullPeriodSales

SpecSales == SalesInit /\ [][SalesNext]_vars

\* one call of pull_sales_cached by build_period_data for one store, with
\* data_end = min(yesterday, period_end), load_cache and save_cache included
RunPullSalesCached ==
    /\ sales_runs < MaxRuns
    /\ \E now \in SalesClocks, failing \in SalesFailures, sn \in STORE_NAMES :
          /\ now >= sales_today
          /\ LET yesterday == Midnight(now) - Days(1)
                 data_end == Min({yesterday, SalesPeriod.end})
                 r == pull_sales_cached(daily_cache[sn], ToastDayTotals[sn], failing, sn,
                                        SalesPeriod.start, data_end, yesterday)
             IN  /\ daily_returned' = [daily_returned EXCEPT ![sn] = r.daily]
                 /\ daily_cache' = [daily_cache EXCEPT ![sn] = r.cache]
                 /\ sales_processed' = r.processed
                 /\ sales_fetched' = r.fetched
          /\ sales_today' = now
          /\ sales_failed' = failing
    /\ sales_runs' = sales_runs + 1
    /\ sales_fn' = "pull_sales_cached"
    /\ UNCHANGED <<calVars, mainVars, fetchVars, auxVars, store_cache, store_sales>>

\* runs of both dashboards, each with its own cache files
CacheNext ==
    \/ RunPullPeriodSales
    \/ RunPullSalesCached

SpecCache == SalesInit /\ [][CacheNext]_vars

\* wi = date_to_week_idx(dt) for each of the days d..last, in order
RECURSIVE WeekIdxOfDays(_, _)
WeekIdxOfDays(d, last) ==
    IF d > last THEN <<>>
    ELSE <<date_to_week_idx(Days(d))>> \o WeekIdxOfDays(d + 1, last)

\* Step 5: store_sales = pull_period_sales(...), summed by week and by period
\* (wi_of is bound by \E so that the weeks of the days are evaluated once)
PullSales ==
    /\ pc = "sales"
    /\ \E wi_of \in {WeekIdxOfDays(DateOf(period_start), DateOf(period_end))} :
          \E rate \in SalesRates :
             LET first == DateOf(period_start)
                 days == first..DateOf(period_end)
                 toast == [sn \in STORE_NAMES |-> [d \in days |-> rate[sn]]]
                 daily_sales == store_sales_of(NoCache, toast, outage, clock,
                                               period_start, period_end)
                 dayset == DOMAIN daily_sales["8001"]
             IN  /\ week_sales' =
                       [wi \in WeekIdxs |-> [sn \in STORE_NAMES |->
                           SumF(daily_sales[sn],
                                {d \in dayset : wi_of[d - first + 1] = wi})]]
                 /\ period_sales' =
                       [sn \in STORE_NAMES |-> SumF(daily_sales[sn], dayset)]
    /\ pc' = "build"
    /\ UNCHANGED <<calVars, fetchVars, salesVars, auxVars, printed, outage, target_period, period_start, period_end, period_weeks, upTxns, upDetails, transactions,
                   begin_inv_txn_ids, details, idx, begin_inventory, week_data,
                   period_data, dashboard_data>>

\* week_stores[sn]
WeekStoreOut(wi, sn) ==
    LET wd == week_data[wi][sn]
        ns == week_sales[wi][sn]
    IN  [net_sales |-> ns,
         purchases_food |-> wd.purchases_food,
         purchases_packaging |-> wd.purchases_packaging,
         purchases_beverage |-> wd.purchases_beverage,
         purchases_other |-> wd.purchases_other,
         purchases_total |-> wd.purchases_total,
         credits |-> wd.credits,
         waste |-> wd.waste,
         net_purchases |-> wd.net_purchases,
         cogs_pct |-> CogsPct(wd.net_purchases, ns),
         has_stock_count |-> wd.has_stock_count,
         invoices_total |-> wd.invoices_total,
         invoices_approved |-> wd.invoices_approved,
         invoices_unapproved |-> wd.invoices_unapproved]

\* sum(s[key] for s in stores.values())
SumKey(stores, key) == SumF([sn \in DOMAIN stores |-> stores[sn][key]], DOMAIN stores)

\* weeks_summary[wi]["totals"]
WeekTotalsOut(stores) ==
    [net_sales |-> SumKey(stores, "net_sales"),
     purchases_food |-> SumKey(stores, "purchases_food"),
     purchases_packaging |-> SumKey(stores, "purchases_packaging"),
     purchases_beverage |-> SumKey(stores, "purchases_beverage"),
     purchases_total |-> SumKey(stores, "purchases_total"),
     credits |-> SumKey(stores, "credits"),
     waste |-> SumKey(stores, "waste"),
     net_purchases |-> SumKey(stores, "net_purchases"),
     cogs_pct |-> CogsPct(SumKey(stores, "net_purchases"), SumKey(stores, "net_sales"))]

\* period_store_data[sn]; no budget file is present
PeriodStoreOut(sn) ==
    LET pd == period_data[sn]
        ns == period_sales[sn]
        bi == pd.begin_inventory
        ei == pd.inventory_end
        inv_cogs == pd.inv_cogs
    IN  [net_sales |-> ns,
         purchases_food |-> pd.purchases_food,
         purchases_packaging |-> pd.purchases_packaging,
         purchases_beverage |-> pd.purchases_beverage,
         purchases_other |-> pd.purchases_other,
         purchases_total |-> pd.purchases_total,
         credits |-> pd.credits,
         waste |-> pd.waste,
         net_purchases |-> pd.net_purchases,
         cogs_pct |-> CogsPct(pd.net_purchases, ns),
         budget_cogs_pct |-> 0,
         budget_cogs |-> 0,
         has_stock_count |-> pd.has_stock_count,
         has_begin_inv |-> bi > 0,
         invoices_total |-> pd.invoices_total,
         invoices_approved |-> pd.invoices_approved,
         begin_inventory |-> bi,
         end_inventory |-> ei,
         inv_cogs |-> inv_cogs,
         inv_cogs_pct |-> InvCogsPct(inv_cogs, ns)]

\* dashboard_data["period_totals"]
PeriodTotalsOut(stores) ==
    [net_sales |-> SumKey(stores, "net_sales"),
     purchases_food |-> SumKey(stores, "purchases_food"),
     purchases_packaging |-> SumKey(stores, "purchases_packaging"),
     purchases_beverage |-> SumKey(stores, "purchases_beverage"),
     purchases_total |-> SumKey(stores, "purchases_total"),
     credits |-> SumKey(stores, "credits"),
     waste |-> SumKey(stores, "waste"),
     net_purchases |-> SumKey(stores, "net_purchases"),
     cogs_pct |-> CogsPct(SumKey(stores, "net_purchases"), SumKey(stores, "net_sales")),
     budget_cogs_pct |-> 0,
     begin_inventory |-> SumKey(stores, "begin_inventory"),
     end_inventory |-> SumKey(stores, "end_inventory"),
     inv_cogs |-> SumKey(stores, "inv_cogs"),
     inv_cogs_pct |-> InvCogsPct(SumKey(stores, "inv_cogs"), SumKey(stores, "net_sales"))]

\* a percentage of the output is computed with a zero divisor: per store-week,
\* per week over all stores, per store-period, per period over all stores
\* (inv_cogs_pct divides by the same net sales as cogs_pct, under a stronger
\* condition)
DashboardRaises ==
    \/ \E wi \in WeekIdxs : \E sn \in STORE_NAMES : PctRaises(week_sales[wi][sn])
    \/ \E wi \in WeekIdxs : PctRaises(SumF(week_sales[wi], STORE_NAMES))
    \/ \E sn \in STORE_NAMES : PctRaises(period_sales[sn])
    \/ PctRaises(SumF(period_sales, STORE_NAMES))

\* the dashboard_data object handed to the renderer; a ZeroDivisionError is
\* not caught and ends the run
BuildDashboard ==
    /\ pc = "build"
    /\ LET week_stores == [wi \in WeekIdxs |-> [sn \in STORE_NAMES |-> WeekStoreOut(wi, sn)]]
           period_store_data == [sn \in STORE_NAMES |-> PeriodStoreOut(sn)]
       IN  IF DashboardRaises THEN dashboard_data' = dashboard_data
           ELSE dashboard_data' =
              [fiscal_year |-> NumFiscalYears,
               period |-> target_period,
               period_start |-> DateOf(period_start),
               period_end |-> DateOf(period_end),
               weeks |-> [wi \in WeekIdxs |->
                            [week_num |-> wi,
                             start |-> DateOf(period_weeks[wi].start),
                             end |-> DateOf(period_weeks[wi].end),
                             stores |-> week_stores[wi],
                             totals |-> WeekTotalsOut(week_stores[wi])]],
               period_stores |-> period_store_data,
               period_totals |-> PeriodTotalsOut(period_store_data),
               has_budget |-> FALSE]
    /\ pc' = IF DashboardRaises THEN "raised" ELSE "done"
    /\ UNCHANGED <<calVars, fetchVars, salesVars, auxVars, printed, outage, target_period, period_start, period_end, period_weeks, upTxns, upDetails, transactions,
                   begin_inv_txn_ids, details, idx, begin_inventory, week_data,
                   period_data, week_sales, period_sales>>

Next ==
    \/ PullTransactions
    \/ PullBeginInventory
    \/ PullDetails
    \/ FirstPassLine
    \/ SecondPassLine
    \/ CalcNetAndInvCogs
    \/ PullSales
    \/ BuildDashboard

Spec == Init /\ [][Next]_vars

\* the same run when an upstream request fails
SpecErr == InitErr /\ [][Next]_vars

\* ------------------------------------------------------------------ claims: COGS dashboard
AfterCalc == pc \in {"sales", "build", "done"}
AfterPasses == pc \in {"calc", "sales", "build", "done"}
LastWeek == Len(period_weeks)

\* C1: per store, the period's inventory-method COGS is beginning inventory
\* + net purchases - ending inventory when both inventories are > 0, and is
\* the unavailable value 0 otherwise (never the invoice-based figure), in
\* period_data and in the output.
C1_InvCogsAvailability ==
    /\ AfterCalc =>
          \A sn \in STORE_NAMES :
              LET bi == begin_inventory[sn]
                  ei == period_data[sn].inventory_end
                  np == period_data[sn].purchases_total - period_data[sn].credits
              IN  /\ (bi > 0 /\ ei > 0) => period_data[sn].inv_cogs = bi + np - ei
                  /\ ~(bi > 0 /\ ei > 0) => period_data[sn].inv_cogs = 0
    /\ pc = "done" =>
          \A sn \in STORE_NAMES :
              LET out == dashboard_data.period_stores[sn]
                  both == out.begin_inventory > 0 /\ out.end_inventory > 0
              IN  /\ both => out.inv_cogs
                                = out.begin_inventory + out.net_purchases - out.end_inventory
                  /\ ~both => out.inv_cogs = 0

C1_Witness ==
    /\ pc = "done"
    /\ \E sn \in STORE_NAMES :
          /\ begin_inventory[sn] > 0
          /\ period_data[sn].inventory_end > 0
          /\ dashboard_data.period_stores[sn].inv_cogs # 0
          /\ dashboard_data.period_stores[sn].inv_cogs
                = begin_inventory[sn] + period_data[sn].net_purchases
                    - period_data[sn].inventory_end

\* C2: a Stock Count dated period_end + 1 day is pulled and goes to the final
\* week; one dated period_end + 2 days is neither pulled nor bucketed; an AP
\* Invoice, AP Credit Memo or Waste Log dated after period_end is not pulled,
\* and dated period_end + 1 day is bucketed into no week.
C2_FlowTypes == {"AP Invoice", "AP Credit Memo", "Waste Log"}

C2_GracePeriod ==
    /\ pc \notin {"off", "start"} =>
          /\ \A k \in 1..Len(transactions) :
                transactions[k].type # "Stock Count"
                    => DateOf(transactions[k].date) <= DateOf(period_end)
          /\ \A id \in DOMAIN upTxns :
                (upTxns[id].type = "Stock Count"
                      /\ DateOf(upTxns[id].date) = DateOf(period_end) + 1)
                    => /\ \E k \in 1..Len(transactions) : transactions[k] = upTxns[id]
                       /\ WeekIdxFor(upTxns[id].type, upTxns[id].date) = LastWeek
          /\ \A id \in DOMAIN upTxns :
                (upTxns[id].type = "Stock Count"
                      /\ DateOf(upTxns[id].date) = DateOf(period_end) + 2)
                    => /\ \A k \in 1..Len(transactions) : transactions[k] # upTxns[id]
                       /\ WeekIdxFor(upTxns[id].type, upTxns[id].date) = NoWeek
          /\ \A ty \in C2_FlowTypes : \A t \in 0..(TicksPerDay - 1) :
                WeekIdxFor(ty, period_end + Days(1) + t) = NoWeek
    /\ AfterPasses =>
          \A i \in 1..Len(details) :
              LET td == details[i]
                  txn == upTxns[td.transactionId]
                  loc_id == IF td.locationId # "" THEN td.locationId ELSE txn.locationId
              IN  (/\ txn.type = "Stock Count"
                   /\ DateOf(txn.date) = DateOf(period_end) + 1
                   /\ td.rowType = "Detail"
                   /\ td.glAccountId \in {"G5110", "G5999"}
                   /\ loc_id \in {"L1", "L2"})
                  => /\ week_data[LastWeek][loc_id_to_num[loc_id]].has_stock_count
                     /\ week_data[LastWeek][loc_id_to_num[loc_id]].inventory_end = td.amount

C2_Witness ==
    /\ pc = "done"
    /\ Len(details) = 1
    /\ upTxns[1].type = "Stock Count"
    /\ upTxns[1].date = period_end + Days(1) + 1
    /\ \E sn \in STORE_NAMES :
          /\ week_data[LastWeek][sn].has_stock_count
          /\ week_data[LastWeek][sn].inventory_end = 700

\* C3: the period-level ending inventory of a store is the sum of the ending
\* values of the Stock Counts at the period end only (those of the final
\* week); counts of earlier weeks do not add to it.
C3_EndingInventoryAtPeriodEnd ==
    AfterPasses =>
        \A sn \in STORE_NAMES :
            period_data[sn].inventory_end = week_data[LastWeek][sn].inventory_end

\* C4: for every store-week and store-period, net_purchases is purchases_total
\* minus credits, negative values included, in the aggregates and in the
\* output.
C4_NetPurchases ==
    /\ AfterCalc =>
          /\ \A wi \in 1..LastWeek : \A sn \in STORE_NAMES :
                week_data[wi][sn].net_purchases
                    = week_data[wi][sn].purchases_total - week_data[wi][sn].credits
          /\ \A sn \in STORE_NAMES :
                period_data[sn].net_purchases
                    = period_data[sn].purchases_total - period_data[sn].credits
    /\ pc = "done" =>
          /\ \A wi \in 1..LastWeek : \A sn \in STORE_NAMES :
                LET out == dashboard_data.weeks[wi].stores[sn]
                IN  out.net_purchases = out.purchases_total - out.credits
          /\ \A sn \in STORE_NAMES :
                LET out == dashboard_data.period_stores[sn]
                IN  out.net_purchases = out.purchases_total - out.credits

C4_Witness ==
    /\ pc = "done"
    /\ \E sn \in STORE_NAMES :
          /\ dashboard_data.period_stores[sn].purchases_total > 0
          /\ dashboard_data.period_stores[sn].net_purchases < 0
          /\ \E wi \in 1..LastWeek : dashboard_data.weeks[wi].stores[sn].net_purchases < 0

\* C5: the output of every store-period carries a coverage-adjusted COGS
\* estimate equal to net_purchases x COGS_COVERAGE_FACTOR.
C5_NumericKeys ==
    {"net_sales", "purchases_food", "purchases_packaging", "purchases_beverage",
     "purchases_other", "purchases_total", "credits", "waste", "net_purchases",
     "cogs_pct", "budget_cogs_pct", "budget_cogs", "invoices_total",
     "invoices_approved", "begin_inventory", "end_inventory", "inv_cogs",
     "inv_cogs_pct"}

C5_CoverageAdjustedExposed ==
    pc = "done" =>
        \A sn \in STORE_NAMES :
            LET out == dashboard_data.period_stores[sn]
            IN  \E k \in C5_NumericKeys \cap DOMAIN out :
                    out[k] = RoundDiv(out.net_purchases * COGS_COVERAGE_FACTOR, 100)

\* C6: for a store-week, store-period or all-stores window whose net sales
\* are zero, cogs_pct and inv_cogs_pct are an unavailable marker, not a
\* number (in particular not 0).
C6_ZeroSalesPctUnavailable ==
    pc = "done" =>
        /\ \A wi \in 1..LastWeek : \A sn \in STORE_NAMES :
              dashboard_data.weeks[wi].stores[sn].net_sales = 0
                  => dashboard_data.weeks[wi].stores[sn].cogs_pct \notin Int
        /\ \A wi \in 1..LastWeek :
              dashboard_data.weeks[wi].totals.net_sales = 0
                  => dashboard_data.weeks[wi].totals.cogs_pct \notin Int
        /\ \A sn \in STORE_NAMES :
              dashboard_data.period_stores[sn].net_sales = 0
                  => /\ dashboard_data.period_stores[sn].cogs_pct \notin Int
                     /\ dashboard_data.period_stores[sn].inv_cogs_pct \notin Int
        /\ dashboard_data.period_totals.net_sales = 0
              => /\ dashboard_data.period_totals.cogs_pct \notin Int
                 /\ dashboard_data.period_totals.inv_cogs_pct \notin Int

\* C7: a detail row whose rowType is not Detail or whose GL account number
\* does not begin with 5 changes no purchases, credits, waste or inventory
\* figure of any week, period or store, whatever the transaction type.
C7_CogsFields ==
    {"purchases_food", "purchases_packaging", "purchases_beverage", "purchases_other",
     "purchases_total", "credits", "waste", "inventory_begin", "inventory_end"}

C7_OnlyCogsDetailRowsCount ==
    [][(/\ pc \in {"pass1", "pass2"}
        /\ ~(/\ details[idx].rowType = "Detail"
             /\ details[idx].glAccountId \in {"G5110", "G5210", "G5310", "G5999"}))
       => /\ begin_inventory' = begin_inventory
          /\ \A f \in C7_CogsFields :
                /\ \A sn \in STORE_NAMES : period_data'[sn][f] = period_data[sn][f]
                /\ \A wi \in 1..LastWeek : \A sn \in STORE_NAMES :
                      week_data'[wi][sn][f] = week_data[wi][sn][f]]_vars

\* C8: a detail row whose resolved location (its own locationId when present,
\* else the transaction's) is no store of the registry changes no weekly
\* aggregate, no period aggregate and no beginning inventory of any store.
C8_ResolvesToStore(td, txn) ==
    LET loc_id == IF td.locationId # "" THEN td.locationId ELSE txn.locationId
    IN  loc_id \in {"L1", "L2"}

C8_UnknownStoreDropped ==
    [][(/\ pc \in {"pass1", "pass2"}
        /\ ~C8_ResolvesToStore(details[idx], upTxns[details[idx].transactionId]))
       => UNCHANGED <<week_data, period_data, begin_inventory>>]_vars

C8_Witness ==
    /\ pc = "done"
    /\ Len(details) = 1
    /\ ~C8_ResolvesToStore(details[1], upTxns[1])
    /\ upTxns[1].locationId = "L1"
    /\ details[1].locationId = "L9"
    /\ upTxns[1].type = "AP Invoice"
    /\ upTxns[1].date = period_end - Days(1)
    /\ details[1].rowType = "Detail"
    /\ details[1].glAccountId = "G5110"
    /\ details[1].debit > 0
    /\ \A sn \in STORE_NAMES :
          /\ dashboard_data.period_stores[sn].purchases_total = 0
          /\ dashboard_data.period_stores[sn].invoices_total = 0
    /\ dashboard_data.period_totals.purchases_total = 0

\* ------------------------------------------------------------------ claims: calendar

\* C9: get_445_periods returns 12 periods numbered 1..12 of 4,4,5,... weeks;
\* the first starts on the fiscal-year start, each next one starts the day
\* after the previous one ends, and together they span exactly 364 days.
C9_Lengths == <<4, 4, 5, 4, 4, 5, 4, 4, 5, 4, 4, 5>>

C9_Periods445 ==
    cal_op = "get_445_periods" =>
        /\ Len(cal_periods) = 12
        /\ \A i \in 1..12 :
              /\ cal_periods[i].period = i
              /\ cal_periods[i].weeks = C9_Lengths[i]
              /\ DateOf(cal_periods[i].end) - DateOf(cal_periods[i].start) + 1
                     = 7 * C9_Lengths[i]
              /\ cal_periods[i].start = Midnight(cal_periods[i].start)
              /\ cal_periods[i].end = Midnight(cal_periods[i].end)
        /\ cal_periods[1].start = fy_start
        /\ \A i \in 1..11 : cal_periods[i + 1].start = cal_periods[i].end + Days(1)
        /\ cal_periods[12].end + Days(1) - cal_periods[1].start = Days(364)

C9_Witness ==
    /\ cal_op = "get_445_periods"
    /\ Len(cal_periods) = 12
    /\ cal_periods[3].weeks = 5
    /\ cal_periods[1].start = Days(FirstConfigDay + 2)
    /\ cal_periods[12].end = Days(FirstConfigDay + 2 + 363)

\* C10: for every day inside the 364-day span of a configured fiscal year and
\* whatever the time of day, each period lookup finds a period, and its
\* [start, end] dates contain the day.
InConfiguredSpan(starts, dt) ==
    \E fy \in DOMAIN starts :
        starts[fy] <= Midnight(dt) /\ Midnight(dt) < starts[fy] + Days(364)

C10_LookupFindsDay ==
    /\ (cal_op \in {"cogs.get_current_period", "daily.get_current_period"}
          /\ InConfiguredSpan(FISCAL_YEAR_STARTS, clock))
        => (cal_found.found
              /\ DateOf(cal_found.start) <= DateOf(clock)
              /\ DateOf(clock) <= DateOf(cal_found.end))
    /\ (cal_op = "date_to_fy_period" /\ InConfiguredSpan(FY_STARTS, clock))
        => (cal_found.found
              /\ DateOf(cal_found.start) <= DateOf(clock)
              /\ DateOf(clock) <= DateOf(cal_found.end))

\* C14: when a transaction-header pull, the beginning-inventory pull, the
\* detail pull or a daily net-sales pull fails after its retries, the run
\* builds no dashboard output.
C14_FailedPullWritesNoOutput ==
    pc = "done" => outage = {}

\* C17: whatever runs came before, failed pulls included, a run in which
\* every pull is answered returns the daily net sales that the same run
\* returns with an empty cache, which are Toast's figures.
C17_WarmEqualsCold ==
    (sales_runs >= 1 /\ sales_failed = {}) =>
        /\ store_sales = pull_period_sales(NoCache, ToastSales, {}, sales_today,
                                           SalesPeriod.start, SalesPeriod.end).store_sales
        /\ \A sn \in STORE_NAMES : \A d \in DOMAIN store_sales[sn] :
              store_sales[sn][d] = ToastSales[sn][d]

\* C18: processing one more AP Invoice detail row never lowers purchases_total
\* - credits (the net purchases) of any store-week or store-period, and
\* processing one more AP Credit Memo detail row never raises it, for every
\* debit and credit the row carries.
C18_Net(agg) == agg.purchases_total - agg.credits

C19_UnavailableIsNoNumber ==
    pc = "done" =>
        \A sn \in STORE_NAMES :
            LET out == dashboard_data.period_stores[sn]
            IN  ~(out.begin_inventory > 0 /\ out.end_inventory > 0)
                    => out.inv_cogs \notin Int

\* C20: in the second pass an AP Invoice detail row of a known store whose
\* transaction's calendar date lies in the period is counted in the week
\* whose day range holds that date, and in no other week, whatever the time
\* of day of the timestamp.
C20_BucketedByCalendarDate ==
    [][LET td == details[idx]
           txn == upTxns[td.transactionId]
           loc_id == IF td.locationId # "" THEN td.locationId ELSE txn.locationId
           day == DateOf(txn.date)
       IN  (/\ pc = "pass2"
            /\ txn.type = "AP Invoice"
            /\ td.rowType = "Detail"
            /\ loc_id \in {"L1", "L2"}
            /\ DateOf(period_start) <= day
            /\ day <= DateOf(period_end))
           => \E wi \in 1..LastWeek :
                 /\ DateOf(period_weeks[wi].start) <= day
                 /\ day <= DateOf(period_weeks[wi].end)
                 /\ week_data'[wi][loc_id_to_num[loc_id]].invoices_total
                       = week_data[wi][loc_id_to_num[loc_id]].invoices_total + 1
                 /\ \A wj \in (1..LastWeek) \ {wi} : \A sn \in STORE_NAMES :
                       week_data'[wj][sn] = week_data[wj][sn]]_vars

\* ------------------------------------------------------------------ claims: weeks and chunks

\* C11: for a period start <= end the weeks are in increasing order, the
\* first starts on the period start, each next one starts the day after the
\* previous one ends, all but the last have 7 days, the last ends on the
\* period end, and every day of the period lies in exactly one week.
C11_WeeksPartition ==
    cal_op \in {"get_period_weeks", "main.period_weeks"} =>
        LET w == cal_weeks
            n == Len(cal_weeks)
            len(i) == DateOf(w[i].end) - DateOf(w[i].start) + 1
        IN  /\ n >= 1
            /\ w[1].start = cal_span[1]
            /\ w[n].end = cal_span[2]
            /\ \A i \in 1..(n - 1) :
                  /\ w[i + 1].start = w[i].end + Days(1)
                  /\ len(i) = 7
            /\ len(n) >= 1 /\ len(n) <= 7
            /\ \A d \in DateOf(cal_span[1])..DateOf(cal_span[2]) :
                  Cardinality({i \in 1..n :
                      DateOf(w[i].start) <= d /\ d <= DateOf(w[i].end)}) = 1

C11_Witness ==
    /\ cal_op = "get_period_weeks"
    /\ DateOf(cal_span[2]) - DateOf(cal_span[1]) + 1 = 17
    /\ Len(cal_weeks) = 3
    /\ cal_weeks[3].end - cal_weeks[3].start = Days(2)

\* C12: every business week of every period of a configured fiscal year
\* starts on a Wednesday, whatever the configured fiscal-year start.
C12_WeeksStartOnWednesday ==
    cal_op = "main.period_weeks" =>
        \A i \in 1..Len(cal_weeks) : DateOf(cal_weeks[i].start) % 7 = 2

\* C16: every Transaction request covers at most 31 days, the requests of a
\* type are made in increasing date order, and for every type every day
\* from period_start to period_end lies in exactly one request; no day lies
\* in two requests of a type.
C16_Chunking ==
    cal_op = "pull_transactions_for_period" =>
        LET r == cal_requests
            covers(i, d) == DateOf(r[i].start) <= d /\ d <= DateOf(r[i].end)
        IN  /\ \A i \in 1..Len(r) : DateOf(r[i].end) - DateOf(r[i].start) + 1 <= 31
            /\ \A i, j \in 1..Len(r) :
                  (i < j /\ r[i].type = r[j].type) => r[i].end < r[j].start
            /\ \A ty \in TypeSet :
                  /\ \A d \in DateOf(cal_span[1])..DateOf(cal_span[2]) :
                        Cardinality({i \in 1..Len(r) : r[i].type = ty /\ covers(i, d)}) = 1
                  /\ \A d \in (DateOf(cal_span[1]) - 2)..(DateOf(cal_span[2]) + 2) :
                        Cardinality({i \in 1..Len(r) : r[i].type = ty /\ covers(i, d)}) <= 1

C16_Witness ==
    /\ cal_op = "pull_transactions_for_period"
    /\ DateOf(cal_span[2]) - DateOf(cal_span[1]) + 1 = 65
    /\ Len(cal_requests) = 15
    /\ cal_requests[11].start = cal_span[1] + Days(62)
    /\ cal_requests[11].end = cal_span[2]

\* ------------------------------------------------------------------ claims: fetching

\* C13: a call of r365_fetch makes at most 3 attempts, all of the same
\* request; after the k-th failed attempt (k = 1, 2) it sleeps 5 x k seconds
\* before the next one; it returns the response of the first attempt that
\* succeeds; it raises exactly when the 3rd attempt fails; it never returns
\* without a response.
C13_Gets == {i \in 1..Len(fetch_log) : fetch_log[i].op = "GET"}

C13_RetryAndBackoff ==
    fa_pc # "off" =>
        /\ Cardinality(C13_Gets) <= 3
        /\ \A i \in C13_Gets : fetch_log[i].url = skip \/ (fa_pc = "page" /\ fetch_log[i].url = skip - PageRows)
        /\ \A i, j \in C13_Gets : fetch_log[i].url = fetch_log[j].url
        /\ \A i \in 1..Len(fetch_log) :
              IF i % 2 = 1
              THEN fetch_log[i].op = "GET"
              ELSE /\ fetch_log[i].op = "sleep"
                   /\ fetch_log[i].wait = 5 * (i \div 2)
                   /\ ~fetch_log[i - 1].ok
        /\ \A i \in C13_Gets : fetch_log[i].ok => i = Len(fetch_log)
        /\ (fa_pc = "raised") <=>
               (Len(fetch_log) = 5 /\ \A i \in C13_Gets : ~fetch_log[i].ok)
        /\ (Len(fetch_log) \in C13_Gets /\ fetch_log[Len(fetch_log)].ok)
               <=> fetch_returned.has
        /\ fetch_returned.has =>
               fetch_returned.value = UpstreamPage(fetch_log[Len(fetch_log)].url)
        /\ (fa_pc \in {"page", "returned"} /\ fetch_log # <<>>)
               => fetch_returned.has

C13_Witness ==
    /\ fa_pc = "returned"
    /\ table_rows = 1
    /\ Len(fetch_log) = 5
    /\ fetch_log[2].wait = 5
    /\ fetch_log[4].wait = 10
    /\ fetch_log[5].ok
    /\ fetch_returned = [has |-> TRUE, value |-> <<1>>]

\* C21: toast_get raises only after 3 attempts, whatever the failures were
\* (HTTP 429, a 5xx response or a network error), having slept 5 s and 10 s
\* between them.
C21_Gets == {i \in 1..Len(toast_log) : toast_log[i].op = "GET"}

C21_RetriesEveryTransientFailure ==
    toast_pc = "raised" =>
        /\ Cardinality(C21_Gets) = 3
        /\ Len(toast_log) = 5
        /\ toast_log[2].op = "sleep" /\ toast_log[2].wait = 5
        /\ toast_log[4].op = "sleep" /\ toast_log[4].wait = 10

\* C22: extract_vendor_name returns "Unknown" for every name that does not
\* contain the separator " - ", the non-empty ones included.
C22_HasSeparator ==
    \E i \in 1..Len(txn_name) : StartsWithSeparator(SubSeq(txn_name, i, Len(txn_name)))

C22_UnknownWithoutSeparator ==
    (vendor.has /\ ~C22_HasSeparator) => vendor.value = Unknown

\* C23: a Detail row with a 5-prefixed GL account of a Stock Count dated in
\* [period_start - 3 days, period_start] adds its amount to the beginning
\* inventory of its store in the first pass and nothing else does; the rows
\* of such a Stock Count change no week's and no period's aggregate in the
\* second pass, so no row is consumed by both passes.
C23_UpstreamHeader(td) ==
    CHOOSE t \in Range(upTxns) : t.transactionId = td.transactionId

C23_InLookback(txn) ==
    /\ txn.type = "Stock Count"
    /\ DateOf(period_start) - 3 <= DateOf(txn.date)
    /\ DateOf(txn.date) <= DateOf(period_start)

C23_Step ==
    /\ pc = "pass1" =>
          LET td == details[idx]
              txn == C23_UpstreamHeader(td)
              loc_id == IF td.locationId # "" THEN td.locationId ELSE txn.locationId
              sn == IF loc_id \in DOMAIN loc_id_to_num
                    THEN loc_id_to_num[loc_id] ELSE "Unknown"
          IN  /\ IF /\ C23_InLookback(txn)
                    /\ td.rowType = "Detail"
                    /\ StartsWith5(GlNumber(td.glAccountId))
                    /\ sn \in STORE_NAMES
                 THEN begin_inventory' =
                          [begin_inventory EXCEPT ![sn] = @ + td.amount]
                 ELSE begin_inventory' = begin_inventory
              /\ week_data' = week_data
              /\ period_data' = period_data
    /\ pc = "pass2" =>
          /\ begin_inventory' = begin_inventory
          /\ C23_InLookback(C23_UpstreamHeader(details[idx])) =>
                 (week_data' = week_data /\ period_data' = period_data)

C23_BeginInventoryLookback == [][C23_Step]_vars

\* a Stock Count dated the first day of the period has been added to the
\* beginning inventory and has left the ending inventories alone
C23_Witness ==
    /\ pc = "calc"
    /\ \E i \in DOMAIN details :
          /\ C23_InLookback(C23_UpstreamHeader(details[i]))
          /\ DateOf(C23_UpstreamHeader(details[i]).date) = DateOf(period_start)
    /\ \E sn \in STORE_NAMES : begin_inventory[sn] > 0
    /\ \A sn \in STORE_NAMES :
          /\ period_data[sn].inventory_end = 0
          /\ ~period_data[sn].has_stock_count
          /\ \A wi \in WeekIdxs : week_data[wi][sn].inventory_end = 0

\* C24: on the first day of a period p, p = 1 included, the daily dashboard
\* displays the period that ends the day before, whenever the configured
\* fiscal years contain that day.
C24_FirstDayOfPeriod ==
    /\ daily_get_current_period(FISCAL_YEAR_STARTS, clock).found
    /\ daily_get_current_period(FISCAL_YEAR_STARTS, clock).start = Midnight(clock)

C24_PrecedingPeriodDisplayed ==
    (/\ cal_op = "daily.main.display_period"
     /\ C24_FirstDayOfPeriod
     /\ InConfiguredSpan(FISCAL_YEAR_STARTS, Midnight(clock) - Days(1)))
        => (cal_found.found /\ cal_found.end = Midnight(clock) - Days(1))

\* C25: in every run of pull_period_sales or pull_sales_cached, whatever runs
\* came before: no entry leaves a cache; an entry for a day strictly before
\* yesterday keeps its value and its day is not asked of Toast; yesterday,
\* when it lies in the period, is asked of Toast for every store of the run;
\* and each store's days are gone through in increasing order.
C25_Increasing(reqs) ==
    \A i, j \in 1..Len(reqs) :
        (i < j /\ reqs[i].store = reqs[j].store) => reqs[i].day < reqs[j].day

C25_Kept(before, after, yesterday, asked) ==
    \A sn \in STORE_NAMES : \A d \in DOMAIN before[sn] :
        /\ d \in DOMAIN after[sn]
        /\ Days(d) < yesterday =>
              /\ after[sn][d] = before[sn][d]
              /\ SalesRequest(sn, d) \notin asked

C25_Step ==
    LET yesterday == Midnight(sales_today') - Days(1)
        asked == Range(sales_fetched')
        in_period == SalesPeriod.start <= yesterday /\ yesterday <= SalesPeriod.end
        asked_yesterday(sn) == SalesRequest(sn, DateOf(yesterday)) \in asked
    IN  /\ C25_Kept(store_cache, store_cache', yesterday,
                    IF sales_fn' = "pull_period_sales" THEN asked ELSE {})
        /\ C25_Kept(daily_cache, daily_cache', yesterday,
                    IF sales_fn' = "pull_sales_cached" THEN asked ELSE {})
        /\ in_period =>
              IF sales_fn' = "pull_period_sales"
              THEN \A sn \in STORE_NAMES : asked_yesterday(sn)
              ELSE \E sn \in STORE_NAMES : asked_yesterday(sn)
        /\ C25_Increasing(sales_processed')
        /\ C25_Increasing(sales_fetched')

C26_DroppedForStore(td) ==
    LET txn == txn_lookup(td.transactionId)
    IN  /\ td.transactionId \notin begin_inv_txn_ids
        /\ WeekIdxFor(txn.type, txn.date) # NoWeek
        /\ ~KnownStore(StoreOf(td, txn))

C26_DroppedLinesLogged ==
    AfterPasses =>
        \A i \in DOMAIN details :
            C26_DroppedForStore(details[i]) =>
                \E k \in DOMAIN printed : printed[k].txn = details[i].transactionId

\* C27: for every store-week, invoices_total is the number of distinct AP
\* Invoice transactions bucketed to it, however many detail rows each has,
\* and invoices_approved / invoices_unapproved are the numbers of those with
\* and without the header's isApproved flag.
C27_Invoices(wi, sn) ==
    {details[i].transactionId : i \in
        {k \in DOMAIN details :
            /\ Bucketed(details[k])
            /\ details[k].rowType = "Detail"
            /\ txn_lookup(details[k].transactionId).type = "AP Invoice"
            /\ WeekIdxFor("AP Invoice", txn_lookup(details[k].transactionId).date) = wi
            /\ StoreOf(details[k], txn_lookup(details[k].transactionId)) = sn}}

C27_InvoicesCountedOnce ==
    AfterPasses =>
        \A wi \in WeekIdxs : \A sn \in STORE_NAMES :
            LET invoices == C27_Invoices(wi, sn)
                approved == {id \in invoices : txn_lookup(id).isApproved}
                wd == week_data[wi][sn]
            IN  /\ wd.invoices_total = Cardinality(invoices)
                /\ wd.invoices_approved = Cardinality(approved)
                /\ wd.invoices_unapproved = Cardinality(invoices \ approved)
                /\ wd.invoices_total = wd.invoices_approved + wd.invoices_unapproved

\* C28: no run ends in a division by zero, whatever the net sales (zero and
\* negative included) and the COGS are, and every cogs_pct and inv_cogs_pct
\* of the output (store-week, week totals, store-period, period totals) is a
\* number.
C28_NoDivisionByZero ==
    /\ pc # "raised"
    /\ pc = "done" =>
          /\ \A wi \in WeekIdxs :
                /\ dashboard_data.weeks[wi].totals.cogs_pct \in Int
                /\ \A sn \in STORE_NAMES :
                      dashboard_data.weeks[wi].stores[sn].cogs_pct \in Int
          /\ \A sn \in STORE_NAMES :
                /\ dashboard_data.period_stores[sn].cogs_pct \in Int
                /\ dashboard_data.period_stores[sn].inv_cogs_pct \in Int
          /\ dashboard_data.period_totals.cogs_pct \in Int
          /\ dashboard_data.period_totals.inv_cogs_pct \in Int

\* a finished run with non-zero purchases in which one store's net sales are
\* negative and the net sales of all stores are zero
C28_Witness ==
    /\ pc = "done"
    /\ \E sn \in STORE_NAMES :
          /\ dashboard_data.period_stores[sn].net_sales < 0
          /\ dashboard_data.period_stores[sn].net_purchases # 0
    /\ dashboard_data.period_totals.net_sales = 0
    /\ dashboard_data.period_totals.net_purchases # 0

\* C29: at every point of the processing, for every store and every flow
\* metric the period's figure is the sum of the weeks' figures, and in every
\* store-week and store-period purchases_total is the sum of the four
\* category amounts.
C29_Metrics ==
    {"purchases_food", "purchases_packaging", "purchases_beverage", "purchases_other",
     "purchases_total", "credits", "waste", "invoices_total", "inventory_end"}

C29_Categories(agg) ==
    agg.purchases_food + agg.purchases_packaging + agg.purchases_beverage
        + agg.purchases_other

C29_PeriodIsSumOfWeeks ==
    pc \notin {"off", "start", "pulled", "begin"} =>
        \A sn \in STORE_NAMES :
            /\ \A f \in C29_Metrics :
                  period_data[sn][f] =
                      SumF([wi \in WeekIdxs |-> week_data[wi][sn][f]], WeekIdxs)
            /\ period_data[sn].purchases_total = C29_Categories(period_data[sn])
            /\ \A wi \in WeekIdxs :
                  week_data[wi][sn].purchases_total = C29_Categories(week_data[wi][sn])

\* a store with purchases in two weeks of the period
C29_Witness ==
    /\ pc = "calc"
    /\ \E sn \in STORE_NAMES : \E w1, w2 \in WeekIdxs :
          /\ w1 # w2
          /\ week_data[w1][sn].purchases_total > 0
          /\ week_data[w2][sn].purchases_total > 0
          /\ period_data[sn].purchases_total
                 = week_data[w1][sn].purchases_total + week_data[w2][sn].purchases_total

\* C30: after the header pull, every upstream header of a COGS transaction
\* type dated inside the period has been retrieved, however many headers of
\* one type a chunk holds.
C30_EveryHeaderRetrieved ==
    pc = "pulled" =>
        \A id \in DOMAIN upTxns :
            (/\ upTxns[id].type \in TypeSet
             /\ period_start <= upTxns[id].date
             /\ upTxns[id].date <= EndOfDay(period_end))
                => \E k \in DOMAIN transactions : transactions[k].transactionId = id

\* C15: r365_fetch_all returns only after a page shorter than a full page,
\* and the list it returns holds every row of the view, whatever the size of
\* the view.
C15_AllPagesRead ==
    fa_pc = "returned" =>
        /\ Len(UpstreamPage(skip)) < PageRows
        /\ all_records = [k \in 1..table_rows |-> k]

====
